---------------------------- MODULE Spec2Model ----------------------------
(***************************************************************************)
(* pmxbot-glossary: the glossary table, the all-entries cache and the      *)
(* command handlers of src/glossary/glossary.py.                           *)
(*                                                                         *)
(* A Python string is a sequence of one-character strings, so that         *)
(* lower(), strip(), split(), "in", int() and SQL LIKE are computed        *)
(* character by character, as the interpreter and SQLite compute them.     *)
(***************************************************************************)
EXTENDS Integers, Sequences, FiniteSets, TLC

VARIABLES
    table,   \* the rows of the glossary table, in entryid (insertion) order
    cache,   \* SQLiteGlossary.cache: the 'all_entries' key and its value
    clock,   \* the second datetime('now','utc') reads
    last,    \* the last call made on the plugin: its name, arguments, outcome
    bound,   \* whether Glossary.store is bound (initialize .. finalize)
    threads  \* the calls two host threads are in the middle of

vars == <<table, cache, clock, last, bound, threads>>

(***************************************************************************)
(* Bounds of the model.                                                    *)
(***************************************************************************)
MaxRows == 2
MaxClock == 1

(***************************************************************************)
(* Characters.                                                             *)
(***************************************************************************)
Digits == {"0", "1", "2", "3", "4"}
\* string.punctuation (its backquote cannot be written in a string here)
Punctuation ==
    {"!", "\"", "#", "$", "%", "&", "'", "(", ")", "*", "+", ",", "-", ".",
     "/", ":", ";", "<", "=", ">", "?", "@", "[", "\\", "]", "^", "_", "{",
     "|", "}", "~"}
Whitespace == {" "}

\* Python None
None == <<"None">>
\* an exception leaving the call
IndexError == "IndexError"

LowerChar(c) ==
    CASE c = "A" -> "a"
      [] c = "B" -> "b"
      [] c = "H" -> "h"
      [] OTHER -> c

\* str.lower()
Lower(s) == [i \in 1..Len(s) |-> LowerChar(s[i])]

RECURSIVE LStrip(_)
LStrip(s) ==
    IF s # <<>> /\ Head(s) \in Whitespace THEN LStrip(Tail(s)) ELSE s

RECURSIVE RStrip(_)
RStrip(s) ==
    IF s # <<>> /\ s[Len(s)] \in Whitespace
    THEN RStrip(SubSeq(s, 1, Len(s) - 1))
    ELSE s

\* str.strip()
Strip(s) == RStrip(LStrip(s))

\* Python: sub in s
Contains(sub, s) ==
    \E i \in 0..(Len(s) - Len(sub)) : SubSeq(s, i + 1, i + Len(sub)) = sub

\* index of the first occurrence of character d in s, 0 if there is none
RECURSIVE FindChar(_, _, _)
FindChar(s, d, i) ==
    IF i > Len(s) THEN 0
    ELSE IF s[i] = d THEN i
    ELSE FindChar(s, d, i + 1)

\* str.split(d) for a one-character delimiter: the parts, empty ones kept
RECURSIVE Split(_, _)
Split(s, d) ==
    LET i == FindChar(s, d, 1) IN
    IF i = 0 THEN <<s>>
    ELSE <<SubSeq(s, 1, i - 1)>> \o Split(SubSeq(s, i + 1, Len(s)), d)

\* str.split(d, 1): at most one split
Split1(s, d) ==
    LET i == FindChar(s, d, 1) IN
    IF i = 0 THEN <<s>>
    ELSE <<SubSeq(s, 1, i - 1), SubSeq(s, i + 1, Len(s))>>

\* SQLite's LIKE: % matches any run of characters, _ any one character,
\* anything else itself without regard to ASCII letter case
RECURSIVE Like(_, _)
Like(p, s) ==
    IF p = <<>> THEN s = <<>>
    ELSE IF Head(p) = "%"
         THEN \E k \in 0..Len(s) : Like(Tail(p), SubSeq(s, k + 1, Len(s)))
    ELSE IF s = <<>> THEN FALSE
    ELSE IF Head(p) = "_" THEN Like(Tail(p), Tail(s))
    ELSE LowerChar(Head(p)) = LowerChar(Head(s)) /\ Like(Tail(p), Tail(s))

DigitVal(c) ==
    CASE c = "0" -> 0 [] c = "1" -> 1 [] c = "2" -> 2 [] c = "3" -> 3
      [] c = "4" -> 4

RECURSIVE DigitsVal(_, _)
DigitsVal(s, acc) ==
    IF s = <<>> THEN acc ELSE DigitsVal(Tail(s), 10 * acc + DigitVal(Head(s)))

\* int(s): surrounding whitespace dropped, one optional sign, then digits;
\* ok is FALSE where int raises ValueError
ParseInt(s) ==
    LET t == Strip(s)
        signed == t # <<>> /\ Head(t) \in {"-", "+"}
        body == IF signed THEN Tail(t) ELSE t
    IN  IF body = <<>> \/ \E i \in 1..Len(body) : body[i] \notin Digits
        THEN [ok |-> FALSE, val |-> 0]
        ELSE [ok |-> TRUE,
              val |-> IF signed /\ Head(t) = "-"
                      THEN 0 - DigitsVal(body, 0)
                      ELSE DigitsVal(body, 0)]


(***************************************************************************)
(* Values of the handlers' arguments.                                      *)
(***************************************************************************)
\* the num argument: None, or an integer
NoNum == [isNone |-> TRUE, val |-> 0]
Num(n) == [isNone |-> FALSE, val |-> n]

(***************************************************************************)
(* The glossary table (CREATE_GLOSSARY_SQL) and its queries.               *)
(***************************************************************************)
Row(entry, definition, author, channel, timestamp) ==
    [entry |-> entry, entry_lower |-> Lower(entry), definition |-> definition,
     author |-> author, channel |-> channel, timestamp |-> timestamp]

\* the namedtuple built from a row, its index and the total count
GlossaryRecord(r, index, total_count) ==
    [entry |-> r.entry, entry_lower |-> r.entry_lower,
     definition |-> r.definition, author |-> r.author, channel |-> r.channel,
     datetime |-> r.timestamp, index |-> index, total_count |-> total_count]

Front(s) == SubSeq(s, 1, Len(s) - 1)

RECURSIVE InsertByTimestamp(_, _)
InsertByTimestamp(s, r) ==
    IF s = <<>> THEN <<r>>
    ELSE IF s[Len(s)].timestamp <= r.timestamp THEN Append(s, r)
    ELSE Append(InsertByTimestamp(Front(s), r), s[Len(s)])

\* ORDER BY timestamp over a scan in entryid order.  SQLite sorts with a
\* stable merge sort, so rows of one second keep their entryid order.
RECURSIVE OrderByTimestamp(_)
OrderByTimestamp(rows) ==
    IF rows = <<>> THEN <<>>
    ELSE InsertByTimestamp(OrderByTimestamp(Front(rows)), rows[Len(rows)])

\* WHERE entry_lower LIKE ?
EntryMatches(pattern, r) == Like(pattern, r.entry_lower)

get_all_records_for_entry(tbl, entry) ==
    LET results ==
            OrderByTimestamp(
                SelectSeq(tbl, LAMBDA r : EntryMatches(Lower(entry), r)))
    IN  [i \in 1..Len(results) |->
            GlossaryRecord(results[i], i - 1, Len(results))]

\* what a call returns: an exception, None, or a value
Raised == [kind |-> "raise", exc |-> IndexError]
ReturnedNone == [kind |-> "none"]
Returned(v) == [kind |-> "value", value |-> v]

NumBelowOne(num) == ~num.isNone /\ num.val < 1

get_entry_data(tbl, entry, num) ==
    IF NumBelowOne(num) THEN Raised
    ELSE LET stored == get_all_records_for_entry(tbl, entry) IN
         IF stored = <<>> THEN ReturnedNone
         ELSE IF ~num.isNone /\ num.val # 0
              THEN IF num.val - 1 < Len(stored)
                   THEN Returned(stored[num.val])
                   ELSE Raised
         ELSE Returned(stored[Len(stored)])

\* (mutant) the write replaces the term's newest row instead of adding one
InsertRow_Replacing(tbl, r) ==
    IF \E i \in 1..Len(tbl) : tbl[i].entry_lower = r.entry_lower
    THEN LET i == CHOOSE j \in 1..Len(tbl) :
                    /\ tbl[j].entry_lower = r.entry_lower
                    /\ \A k \in (j + 1)..Len(tbl) :
                            tbl[k].entry_lower # r.entry_lower
         IN  [tbl EXCEPT ![i] = r]
    ELSE Append(tbl, r)
\* the rows INSERT leaves in the table
InsertRow(tbl, r) == Append(tbl, r)

\* bust_all_entries_cache: the cache without its 'all_entries' key
NoCache == [has |-> FALSE, entries |-> {}]
\* (mutant) the key is left in place
bust_all_entries_cache_Kept(c) == c
bust_all_entries_cache(c) == NoCache

\* GROUP BY entry_lower: one output row per entry_lower; the bare columns come
\* from one row of the group, which one is SQLite's choice
Groups(tbl) == {tbl[i].entry_lower : i \in 1..Len(tbl)}
GroupRows(tbl, g) == {i \in 1..Len(tbl) : tbl[i].entry_lower = g}

GroupedRecords(tbl) ==
    {{GlossaryRecord(tbl[pick[g]], Cardinality(GroupRows(tbl, g)) - 1,
                     Cardinality(GroupRows(tbl, g))) : g \in Groups(tbl)} :
        pick \in {f \in [Groups(tbl) -> 1..Len(tbl)] :
                    \A g \in Groups(tbl) : f[g] \in GroupRows(tbl, g)}}

\* get_all_records: the lists it may return, the cached one when there is one
AllRecordsResults(c, tbl) ==
    IF c.has THEN {c.entries} ELSE GroupedRecords(tbl)

\* the cache get_all_records leaves after returning entries
CacheAfterAllRecords(c, entries) == [has |-> TRUE, entries |-> entries]

\* get_similar_words over the list get_all_records returned
get_similar_words(entries, search_str) ==
    {e.entry : e \in {x \in entries : Contains(Lower(search_str), x.entry_lower)}}

\* (mutant) only the newest row of a term is searched
search_definitions_NewestOnly(tbl, search_str) ==
    {tbl[i].entry : i \in {j \in 1..Len(tbl) :
        /\ Like(<<"%">> \o search_str \o <<"%">>, tbl[j].definition)
        /\ \A k \in (j + 1)..Len(tbl) :
                tbl[k].entry_lower # tbl[j].entry_lower}}
\* search_definitions: SELECT DISTINCT entry ... WHERE definition LIKE '%..%'
search_definitions(tbl, search_str) ==
    {tbl[i].entry : i \in {j \in 1..Len(tbl) :
        Like(<<"%">> \o search_str \o <<"%">>, tbl[j].definition)}}


(***************************************************************************)
(* The replies of the handlers.  A reply is the template that was filled   *)
(* in and the values that filled it; the age text of a definition, which   *)
(* no statement below reads, is left out.                                  *)
(***************************************************************************)
DOCS_STR == [kind |-> "docs"]
OOPS_STR == [kind |-> "oops"]
\* u'"{}" is not a valid glossary entry number for "{}".'
InvalidNumberReply(num, entry) ==
    [kind |-> "invalid_number", num |-> num, entry |-> entry]
\* QUERY_RESULT_TEMPLATE
QueryResultReply(rec) ==
    [kind |-> "query_result", entry |-> rec.entry, num |-> rec.index + 1,
     total |-> rec.total_count, definition |-> rec.definition,
     author |-> rec.author,
     channel_str |-> IF rec.channel # None /\ rec.channel # <<>>
                     THEN <<" ", "i", "n", " ">> \o rec.channel
                     ELSE <<>>]
\* UNDEFINED_TEMPLATE, with ' May I interest you in ...?' when there are
\* suggestions
UndefinedReply(entry, suggestions) ==
    [kind |-> "undefined", entry |-> entry, suggestions |-> suggestions]
CantFindReply == [kind |-> "cant_find_a_single_definition"]
NoResultsReply == [kind |-> "no_results"]
FoundReply(matches) == [kind |-> "found", matches |-> matches]
DoubleColonReply == [kind |-> "cant_handle_double_colon"]
PunctuationReply(c) == [kind |-> "punctuation", char |-> c]
AlreadyCurrentReply == [kind |-> "already_current"]
\* ADD_DEFINITION_RESULT_TEMPLATE
AddDefinitionReply(rec) ==
    [kind |-> "okay", entry |-> rec.entry, definition |-> rec.definition]
NoSlackUrlReply == [kind |-> "slack_url_not_configured"]
NoChannelReply(rest) == [kind |-> "unknown_channel", entry |-> rest]
ArchivesReply(channel, timestamp) ==
    [kind |-> "archives", channel |-> channel, timestamp |-> timestamp]
\* an exception that leaves the handler instead of a reply
Escaped(exc) == [kind |-> "exception", exc |-> exc]

\* the subsets list(s)[:n] may hold
Truncated(s, n) ==
    IF Cardinality(s) <= n THEN {s}
    ELSE {t \in SUBSET s : Cardinality(t) = n}

SuggestionLimit == 10

Range(f) == {f[i] : i \in DOMAIN f}

\* the fragments get_alternative_suggestions looks up
QueryWords(entry) ==
    UNION {{Lower(Strip(part)) : part \in Range(Split(entry, delim))} :
            delim \in {" ", "-", "_"}}

get_alternative_suggestions(entries, entry) ==
    UNION {get_similar_words(entries, word) : word \in QueryWords(entry)}

\* A handler call ends in a reply and leaves a cache (and, for define, a
\* table); where the code leaves a choice there are several such outcomes.
Outcome(reply, c) == [reply |-> reply, cache |-> c]

handle_nth_definition(tbl, c, entry, num) ==
    LET query_result == get_entry_data(tbl, entry, num) IN
    IF query_result.kind = "raise"
    THEN {Outcome(InvalidNumberReply(num, entry), c)}
    ELSE IF query_result.kind = "value"
    THEN {Outcome(QueryResultReply(query_result.value), c)}
    ELSE UNION {
            {Outcome(UndefinedReply(entry, suggestions),
                     CacheAfterAllRecords(c, entries)) :
                suggestions \in
                    Truncated(get_alternative_suggestions(entries, entry),
                              SuggestionLimit)} :
            entries \in AllRecordsResults(c, tbl)}

handle_random_query(tbl, c) ==
    UNION {
        IF entries = {}
        THEN {Outcome(CantFindReply, CacheAfterAllRecords(c, entries))}
        ELSE UNION {handle_nth_definition(
                        tbl, CacheAfterAllRecords(c, entries), e.entry, NoNum) :
                    e \in entries} :
        entries \in AllRecordsResults(c, tbl)}

handle_search(tbl, c, rest) ==
    {LET entry_matches == get_similar_words(entries, rest)
         lower_matches == {Lower(e) : e \in entry_matches}
         def_matches == {e \in search_definitions(tbl, rest) :
                            Lower(e) \notin lower_matches}
         matches == entry_matches \cup def_matches
     IN  Outcome(IF matches = {} THEN NoResultsReply ELSE FoundReply(matches),
                 CacheAfterAllRecords(c, entries)) :
        entries \in AllRecordsResults(c, tbl)}

Help == <<"h", "e", "l", "p">>

\* the decorator: an early reply, or the entry and num it hands on
entry_number_command(rest0) ==
    LET rest == Strip(rest0) IN
    IF Lower(rest) = Help THEN [early |-> TRUE, reply |-> DOCS_STR]
    ELSE IF Contains(<<":">>, rest)
    THEN LET parts == Split1(rest, ":")
             parsed == ParseInt(Strip(parts[2]))
         IN  IF parsed.ok
             THEN [early |-> FALSE, entry |-> Strip(parts[1]),
                   num |-> Num(parsed.val)]
             ELSE [early |-> TRUE, reply |-> OOPS_STR]
    ELSE [early |-> FALSE, entry |-> rest, num |-> NoNum]

query(tbl, c, rest) ==
    LET cmd == entry_number_command(rest) IN
    IF cmd.early THEN {Outcome(cmd.reply, c)}
    ELSE IF cmd.entry = <<>> THEN handle_random_query(tbl, c)
    ELSE handle_nth_definition(tbl, c, cmd.entry, cmd.num)

\* Python truth of num: neither None nor 0
NumTruthy(num) == ~num.isNone /\ num.val # 0

search(tbl, c, rest) ==
    LET cmd == entry_number_command(rest) IN
    IF cmd.early THEN {Outcome(cmd.reply, c)}
    ELSE IF cmd.entry = <<>> \/ NumTruthy(cmd.num) THEN {Outcome(OOPS_STR, c)}
    ELSE handle_search(tbl, c, cmd.entry)

LStripHash(channel) ==
    IF channel # <<>> /\ Head(channel) = "#" THEN Tail(channel) ELSE channel

\* slack_url: whether pmxbot.config holds a 'slack_url'
archives_link(tbl, c, slack_url, rest0) ==
    LET cmd == entry_number_command(rest0) IN
    IF cmd.early THEN {Outcome(cmd.reply, c)}
    ELSE IF ~slack_url THEN {Outcome(NoSlackUrlReply, c)}
    ELSE LET entry == get_entry_data(tbl, cmd.entry, cmd.num) IN
         IF entry.kind = "raise" THEN {Outcome(Escaped(entry.exc), c)}
         ELSE IF entry.kind = "none" THEN {Outcome(UndefinedReply(None, {}), c)}
         ELSE IF entry.value.channel = None \/ entry.value.channel = <<>>
         THEN {Outcome(NoChannelReply(cmd.entry), c)}
         ELSE {Outcome(ArchivesReply(LStripHash(entry.value.channel),
                                     entry.value.datetime), c)}


(***************************************************************************)
(* Writes.                                                                 *)
(***************************************************************************)
\* add_entry: the table and cache it leaves and the record it returns
add_entry(tbl, c, clk, entry, definition, author, channel) ==
    LET tbl2 == InsertRow(tbl, Row(entry, definition, author, channel, clk)) IN
    [table |-> tbl2,
     cache |-> bust_all_entries_cache(c),
     result |-> get_entry_data(tbl2, entry, NoNum)]

\* (mutant) the last punctuation character of the term is reported
FirstPunctuation_Last(entry, i) ==
    IF \A j \in i..Len(entry) : entry[j] \notin Punctuation THEN 0
    ELSE CHOOSE j \in i..Len(entry) :
            /\ entry[j] \in Punctuation
            /\ \A k \in (j + 1)..Len(entry) : entry[k] \notin Punctuation
\* next((c for c in entry if c in string.punctuation), None): its index, or 0
RECURSIVE FirstPunctuation(_, _)
FirstPunctuation(entry, i) ==
    IF i > Len(entry) THEN 0
    ELSE IF entry[i] \in Punctuation THEN i
    ELSE FirstPunctuation(entry, i + 1)

\* (mutant) the definition counts as current only under the stored spelling
IsCurrentDefinition_SameSpelling(existing, entry, definition) ==
    /\ existing.kind = "value"
    /\ existing.value.definition = definition
    /\ existing.value.entry = entry
\* existing and existing.definition == definition
IsCurrentDefinition(existing, entry, definition) ==
    existing.kind = "value" /\ existing.value.definition = definition

DefineOutcome(reply, tbl, c) == [reply |-> reply, table |-> tbl, cache |-> c]

define(tbl, c, clk, channel, nick, rest0) ==
    LET rest == Strip(rest0) IN
    IF Lower(rest) = Help THEN DefineOutcome(DOCS_STR, tbl, c)
    ELSE IF ~Contains(<<":">>, rest) THEN DefineOutcome(OOPS_STR, tbl, c)
    ELSE IF Contains(<<":", ":">>, rest)
    THEN DefineOutcome(DoubleColonReply, tbl, c)
    ELSE LET parts == Split1(rest, ":")
             entry == Strip(parts[1])
             invalid_char == FirstPunctuation(entry, 1)
             definition == Strip(parts[2])
             existing == get_entry_data(tbl, entry, NoNum)
         IN  IF invalid_char # 0
             THEN DefineOutcome(PunctuationReply(entry[invalid_char]), tbl, c)
             ELSE IF IsCurrentDefinition(existing, entry, definition)
             THEN DefineOutcome(AlreadyCurrentReply, tbl, c)
             ELSE LET added == add_entry(tbl, c, clk, entry, definition,
                                         nick, channel)
                  IN  DefineOutcome(AddDefinitionReply(added.result.value),
                                    added.table, added.cache)

TheDefaults == <<"the defaults">>

\* save_entries over the items of data, in the order the dict yields them
RECURSIVE save_entries(_, _, _, _)
save_entries(tbl, c, clk, data) ==
    IF data = <<>> THEN [table |-> tbl, cache |-> c]
    ELSE LET entry == Head(data)[1]
             definition == Head(data)[2]
             existing == get_all_records_for_entry(tbl, entry)
             existing_defs == {existing[i].definition : i \in DOMAIN existing}
         IN  IF definition \notin existing_defs
             THEN LET added == add_entry(tbl, c, clk, entry, definition,
                                         TheDefaults, None)
                  IN  save_entries(added.table, added.cache, clk, Tail(data))
             ELSE save_entries(tbl, c, clk, Tail(data))


(***************************************************************************)
(* Values the calls are made with.                                         *)
(***************************************************************************)
StoreAuthor == <<"author">>
Nick == <<"nick">>
Channel == <<"#", "c">>
str_a == <<"a">>
str_A == <<"A">>
str_b == <<"b">>
str_c == <<"c">>
str_underscore == <<"_">>

\* no thread is in the middle of a call; serial: the host runs each call to
\* its end before it starts the next
NoThreads ==
    [reader |-> [pc |-> "idle"], writer |-> [pc |-> "idle"], serial |-> TRUE]

(***************************************************************************)
(* The calls.                                                              *)
(***************************************************************************)
Init ==
    /\ table = <<>>
    /\ cache = NoCache
    /\ clock = 0
    /\ last = [op |-> "init"]
    /\ bound = TRUE
    /\ threads = NoThreads

\* a second passes
Tick ==
    /\ clock < MaxClock
    /\ clock' = clock + 1
    /\ last' = [op |-> "tick"]
    /\ UNCHANGED <<table, cache>>
    /\ UNCHANGED <<bound, threads>>

AddEntry(entry, definition, author, channel) ==
    /\ Len(table) < MaxRows
    /\ LET added == add_entry(table, cache, clock, entry, definition,
                              author, channel)
       IN  /\ table' = added.table
           /\ cache' = added.cache
           /\ last' = [op |-> "add_entry", entry |-> entry,
                       definition |-> definition, result |-> added.result]
    /\ UNCHANGED clock
    /\ UNCHANGED <<bound, threads>>

SaveEntries(data) ==
    /\ LET saved == save_entries(table, cache, clock, data)
       IN  /\ Len(saved.table) <= MaxRows
           /\ table' = saved.table
           /\ cache' = saved.cache
           /\ last' = [op |-> "save_entries", data |-> data]
    /\ UNCHANGED clock
    /\ UNCHANGED <<bound, threads>>

Define(channel, nick, rest) ==
    /\ LET o == define(table, cache, clock, channel, nick, rest)
       IN  /\ Len(o.table) <= MaxRows
           /\ table' = o.table
           /\ cache' = o.cache
           /\ last' = [op |-> "define", rest |-> rest, reply |-> o.reply]
    /\ UNCHANGED clock
    /\ UNCHANGED <<bound, threads>>

Query(rest) ==
    /\ \E o \in query(table, cache, rest) :
        /\ cache' = o.cache
        /\ last' = [op |-> "whatis", rest |-> rest, reply |-> o.reply]
    /\ UNCHANGED <<table, clock>>
    /\ UNCHANGED <<bound, threads>>

Search(rest) ==
    /\ \E o \in search(table, cache, rest) :
        /\ cache' = o.cache
        /\ last' = [op |-> "search", rest |-> rest, reply |-> o.reply]
    /\ UNCHANGED <<table, clock>>
    /\ UNCHANGED <<bound, threads>>

ArchivesLink(slack_url, rest) ==
    /\ \E o \in archives_link(table, cache, slack_url, rest) :
        /\ cache' = o.cache
        /\ last' = [op |-> "tardis", rest |-> rest, reply |-> o.reply]
    /\ UNCHANGED <<table, clock>>
    /\ UNCHANGED <<bound, threads>>

GetAllRecords ==
    /\ \E entries \in AllRecordsResults(cache, table) :
        /\ cache' = CacheAfterAllRecords(cache, entries)
        /\ last' = [op |-> "get_all_records", result |-> entries]
    /\ UNCHANGED <<table, clock>>
    /\ UNCHANGED <<bound, threads>>

GetRandomEntry ==
    /\ \E entries \in AllRecordsResults(cache, table) :
        /\ cache' = CacheAfterAllRecords(cache, entries)
        /\ \E result \in IF entries = {} THEN {None}
                         ELSE {e.entry : e \in entries} :
            last' = [op |-> "get_random_entry", result |-> result]
    /\ UNCHANGED <<table, clock>>
    /\ UNCHANGED <<bound, threads>>

GetEntryData(entry, num) ==
    /\ last' = [op |-> "get_entry_data", entry |-> entry, num |-> num,
                result |-> get_entry_data(table, entry, num)]
    /\ UNCHANGED <<table, cache, clock>>
    /\ UNCHANGED <<bound, threads>>

GetSimilarWords(search_str) ==
    /\ \E entries \in AllRecordsResults(cache, table) :
        /\ cache' = CacheAfterAllRecords(cache, entries)
        /\ last' = [op |-> "get_similar_words", search_str |-> search_str,
                    result |-> get_similar_words(entries, search_str)]
    /\ UNCHANGED <<table, clock>>
    /\ UNCHANGED <<bound, threads>>

SearchDefinitions(search_str) ==
    /\ last' = [op |-> "search_definitions", search_str |-> search_str,
                result |-> search_definitions(table, search_str)]
    /\ UNCHANGED <<table, cache, clock>>
    /\ UNCHANGED <<bound, threads>>

GetAlternativeSuggestions(entry) ==
    /\ \E entries \in AllRecordsResults(cache, table) :
        /\ cache' = CacheAfterAllRecords(cache, entries)
        /\ last' = [op |-> "get_alternative_suggestions", entry |-> entry,
                    result |-> get_alternative_suggestions(entries, entry)]
    /\ UNCHANGED <<table, clock>>
    /\ UNCHANGED <<bound, threads>>

\* Glossary.finalize: del cls.store.  The database file stays as it is.
Finalize ==
    /\ bound
    /\ bound' = FALSE
    /\ last' = [op |-> "finalize"]
    /\ UNCHANGED <<table, cache, clock, threads>>

\* Glossary.initialize: cls.store is bound to the database at db_uri, the
\* one bound before ("same") or one without rows ("empty"), and the fixtures
\* (data; none when load_fixtures is false) are saved into it.  The class
\* attribute SQLiteGlossary.cache is not touched by the binding.
Initialize(db_uri, data) ==
    /\ LET rows == IF db_uri = "same" THEN table ELSE <<>>
           saved == save_entries(rows, cache, clock, data)
       IN  /\ Len(saved.table) <= MaxRows
           /\ table' = saved.table
           /\ cache' = saved.cache
    /\ bound' = TRUE
    /\ last' = [op |-> "initialize", db_uri |-> db_uri, data |-> data]
    /\ UNCHANGED <<clock, threads>>

(***************************************************************************)
(* get_all_records and add_entry statement by statement, one host thread   *)
(* in each.  Nothing in the code holds a lock; when the host is serial a   *)
(* call starts only while the other thread is idle.                        *)
(***************************************************************************)
\* (mutant) the lookup of the key always misses
CacheGet_Miss(c) == [isNone |-> TRUE, entries |-> {}]
\* self.cache.get(cache_key)
CacheGet(c) == [isNone |-> ~c.has, entries |-> c.entries]

MayStart(other) == ~threads.serial \/ threads[other].pc = "idle"

\* entries = self.cache.get(cache_key); a hit is returned at once
ReaderStart ==
    /\ threads.reader.pc = "idle"
    /\ MayStart("writer")
    /\ LET entries == CacheGet(cache) IN
        IF entries.isNone
        THEN /\ threads' = [threads EXCEPT !.reader = [pc |-> "query"]]
             /\ UNCHANGED last
        ELSE /\ last' = [op |-> "get_all_records", result |-> entries.entries]
             /\ UNCHANGED threads
    /\ UNCHANGED <<table, cache, clock, bound>>

\* the GROUP BY query and the records built from its rows
ReaderQuery ==
    /\ threads.reader.pc = "query"
    /\ \E entries \in GroupedRecords(table) :
        threads' = [threads EXCEPT
                        !.reader = [pc |-> "store", entries |-> entries]]
    /\ UNCHANGED <<table, cache, clock, last, bound>>

\* self.cache[cache_key] = entries; return entries
ReaderStore ==
    /\ threads.reader.pc = "store"
    /\ cache' = CacheAfterAllRecords(cache, threads.reader.entries)
    /\ last' = [op |-> "get_all_records", result |-> threads.reader.entries]
    /\ threads' = [threads EXCEPT !.reader = [pc |-> "idle"]]
    /\ UNCHANGED <<table, clock, bound>>

\* the INSERT and the commit
WriterInsert(entry, definition, author, channel) ==
    /\ threads.writer.pc = "idle"
    /\ MayStart("reader")
    /\ Len(table) < MaxRows
    /\ table' = InsertRow(table, Row(entry, definition, author, channel, clock))
    /\ threads' = [threads EXCEPT
                    !.writer = [pc |-> "bust", entry |-> entry,
                                definition |-> definition]]
    /\ UNCHANGED <<cache, clock, last, bound>>

\* self.bust_all_entries_cache(); return self.get_entry_data(entry)
WriterBust ==
    /\ threads.writer.pc = "bust"
    /\ cache' = bust_all_entries_cache(cache)
    /\ last' = [op |-> "add_entry", entry |-> threads.writer.entry,
                definition |-> threads.writer.definition,
                result |-> get_entry_data(table, threads.writer.entry, NoNum)]
    /\ threads' = [threads EXCEPT !.writer = [pc |-> "idle"]]
    /\ UNCHANGED <<table, clock, bound>>

(***************************************************************************)
(* Spec: every call of the plugin, each with a few arguments.              *)
(***************************************************************************)
\* define 'A:c ' and 'a' (no separator)
DefineRests == {<<"A", ":", "c", " ">>, str_a}
\* fixtures: the items of the dict, in the order it yields them
Fixtures == {<<<<str_underscore, str_b>>, <<str_a, str_b>>>>}
\* whatis 'a', 'a:0' and ''
QueryRests == {str_a, <<"a", ":", "0">>, <<>>}

Next ==
    \/ Tick
    \/ \E w \in {<<str_a, str_b>>, <<str_A, str_c>>} :
            AddEntry(w[1], w[2], StoreAuthor, None)
    \/ \E data \in Fixtures : SaveEntries(data)
    \/ \E rest \in DefineRests : Define(Channel, Nick, rest)
    \/ \E rest \in QueryRests : Query(rest)
    \/ Search(str_b)
    \/ \E slack_url \in BOOLEAN : ArchivesLink(slack_url, <<"a", ":", "2">>)
    \/ GetAllRecords
    \/ GetRandomEntry
    \/ \E num \in {NoNum, Num(2)} : GetEntryData(str_a, num)
    \/ GetSimilarWords(str_a)
    \/ SearchDefinitions(str_b)
    \/ GetAlternativeSuggestions(str_a)

Spec == Init /\ [][Next]_vars


(***************************************************************************)
(* Statements about the store.                                             *)
(***************************************************************************)
IsPrefix(s, t) == Len(s) <= Len(t) /\ SubSeq(t, 1, Len(s)) = s

\* the rows written for a term, oldest first
History(tbl, term) ==
    OrderByTimestamp(SelectSeq(tbl, LAMBDA r : r.entry_lower = Lower(term)))

TermsOf(entries) == {e.entry_lower : e \in entries}

\* C4: whenever the 'all_entries' cache entry is present it holds exactly one
\* record per case-insensitive term of the table, and get_all_records returns
\* exactly that, so a term add_entry wrote is in the very next result.
C4_CacheCoherent ==
    /\ cache.has =>
        /\ TermsOf(cache.entries) = Groups(table)
        /\ Cardinality(cache.entries) = Cardinality(Groups(table))
    /\ last.op = "get_all_records" =>
        /\ TermsOf(last.result) = Groups(table)
        /\ Cardinality(last.result) = Cardinality(Groups(table))
    /\ last.op = "get_random_entry" =>
        IF table = <<>> THEN last.result = None
        ELSE Lower(last.result) \in Groups(table)
    /\ last.op = "get_similar_words" =>
        {Lower(e) : e \in last.result}
            = {g \in Groups(table) : Contains(Lower(last.search_str), g)}

\* C4 witness: get_all_records has answered from a table that holds two
\* spellings of one term, and the cache holds the one record
C4_Witness ==
    /\ last.op = "get_all_records"
    /\ cache.has
    /\ Len(table) = 2
    /\ table[1].entry # table[2].entry
    /\ Cardinality(last.result) = 1

WriteOps == {"add_entry", "define", "save_entries"}

\* C5: the table is append-only: every step keeps each row where it was and
\* as it was, keeps every term's history as a prefix of its new history; only
\* the writing calls add rows, add_entry exactly one and define at most one.
C5_AppendOnly ==
    [][/\ IsPrefix(table, table')
       /\ \A g \in Groups(table) : IsPrefix(History(table, g), History(table', g))
       /\ last'.op \notin WriteOps => table' = table
       /\ last'.op = "add_entry" => Len(table') = Len(table) + 1
       /\ last'.op = "define" => Len(table') <= Len(table) + 1]_vars

\* C5 witness: add_entry has redefined a term and both rows are in the table
C5_Witness ==
    /\ last.op = "add_entry"
    /\ Len(table) = 2
    /\ table[1].entry_lower = table[2].entry_lower
    /\ table[1].definition # table[2].definition

\* the table a merge leaves that writes a pair exactly when the definition
\* is not among the definitions written for the term
RECURSIVE MergedExactly(_, _, _)
MergedExactly(tbl, clk, data) ==
    IF data = <<>> THEN tbl
    ELSE LET entry == Head(data)[1]
             definition == Head(data)[2]
             history == History(tbl, entry)
         IN  IF \E i \in 1..Len(history) : history[i].definition = definition
             THEN MergedExactly(tbl, clk, Tail(data))
             ELSE MergedExactly(
                    Append(tbl, Row(entry, definition, TheDefaults, None, clk)),
                    clk, Tail(data))

\* C12: save_entries writes a pair exactly when its definition is not in the
\* term's stored history, changes and removes no row, and a second call with
\* the same data writes no row.
C12_FixturesAdditiveIdempotent ==
    [][last'.op = "save_entries" =>
        /\ table' = MergedExactly(table, clock, last'.data)
        /\ IsPrefix(table, table')
        /\ save_entries(table', cache', clock', last'.data).table = table']_vars


(***************************************************************************)
(* SpecLookup: versions of a term, written under two spellings, beside a   *)
(* term that is a LIKE wildcard, and the lookups of them.                  *)
(***************************************************************************)
LookupEntries == {str_a, str_A, str_underscore}
LookupNums == {NoNum} \cup {Num(n) : n \in -1..(MaxRows + 1)}
\* whatis 'a:0', 'A:1', 'a:2', 'a:4', 'a:-1', '_:2'
LookupRests ==
    {<<"a", ":", "0">>, <<"A", ":", "1">>, <<"a", ":", "2">>,
     <<"a", ":", "4">>, <<"a", ":", "-", "1">>, <<"_", ":", "2">>}

NextLookup ==
    \/ Tick
    \/ \E w \in {<<str_a, str_b>>, <<str_a, str_c>>,
                 <<str_underscore, str_b>>} :
            AddEntry(w[1], w[2], StoreAuthor, None)
    \/ Define(Channel, Nick, <<"A", ":", "c", " ">>)
    \/ \E entry \in LookupEntries, num \in LookupNums : GetEntryData(entry, num)
    \/ \E rest \in LookupRests : Query(rest)

SpecLookup == Init /\ [][NextLookup]_vars

\* the rows written to a term under any spelling of it, in the order written
Written(tbl, term) == SelectSeq(tbl, LAMBDA r : r.entry_lower = Lower(term))

\* C1: for a term with definitions D1..Dn written in that order,
\* get_entry_data(T', i) returns the record of Di with index i and total n for
\* every i in 1..n and every spelling T', and get_entry_data(T') returns what
\* get_entry_data(T', n) returns.
C1_VersionsInWriteOrder ==
    (last.op = "get_entry_data" /\ Written(table, last.entry) # <<>>) =>
        LET written == Written(table, last.entry)
            n == Len(written)
        IN  /\ (~last.num.isNone /\ last.num.val \in 1..n) =>
                /\ last.result.kind = "value"
                /\ last.result.value.definition
                        = written[last.num.val].definition
                /\ last.result.value.index + 1 = last.num.val
                /\ last.result.value.total_count = n
            /\ last.num.isNone =>
                last.result = get_entry_data(table, last.entry, Num(n))

\* C2: for a term with n >= 1 definitions, get_entry_data with an integer
\* version outside 1..n raises, and whatis replies that the number is not a
\* valid entry number for the term.
C2_OutOfRangeSignalled ==
    /\ (/\ last.op = "get_entry_data"
        /\ Written(table, last.entry) # <<>>
        /\ ~last.num.isNone
        /\ last.num.val \notin 1..Len(Written(table, last.entry)))
        => last.result = Raised
    /\ (/\ last.op = "whatis"
        /\ ~entry_number_command(last.rest).early
        /\ Written(table, entry_number_command(last.rest).entry) # <<>>
        /\ ~entry_number_command(last.rest).num.isNone
        /\ entry_number_command(last.rest).num.val \notin
                1..Len(Written(table, entry_number_command(last.rest).entry)))
        => last.reply = InvalidNumberReply(entry_number_command(last.rest).num,
                                           entry_number_command(last.rest).entry)

\* C11: a lookup of a term without a stored definition is a normal not-found
\* result, whatever the version and whatever the characters of the term:
\* get_entry_data returns None and whatis replies that the term is undefined,
\* with at most 10 suggestions; no record of another term is rendered.
C11_UnknownTermUndefined ==
    /\ (last.op = "get_entry_data" /\ Written(table, last.entry) = <<>>)
        => last.result = ReturnedNone
    /\ (/\ last.op = "whatis"
        /\ ~entry_number_command(last.rest).early
        /\ entry_number_command(last.rest).entry # <<>>
        /\ Written(table, entry_number_command(last.rest).entry) = <<>>)
        => /\ last.reply.kind = "undefined"
           /\ last.reply.entry = entry_number_command(last.rest).entry
           /\ Cardinality(last.reply.suggestions) <= SuggestionLimit


(***************************************************************************)
(* SpecCommands: the four commands on well-formed and malformed argument   *)
(* texts.                                                                  *)
(***************************************************************************)
\* define 'a: b', 'A:c', 'a' (no separator), 'a::b', '_:b', 'Help'
CommandDefineRests ==
    {<<"a", ":", " ", "b">>, <<"A", ":", "c">>, str_a, <<"a", ":", ":", "b">>,
     <<"_", ":", "b">>, <<"H", "e", "l", "p">>}
\* whatis 'a', 'a 1', 'a 0', 'a:1', 'a:0', 'a:-1', 'a:4', 'a:b', ''
CommandQueryRests ==
    {str_a, <<"a", " ", "1">>, <<"a", " ", "0">>, <<"a", ":", "1">>,
     <<"a", ":", "0">>, <<"a", ":", "-", "1">>, <<"a", ":", "4">>,
     <<"a", ":", "b">>, <<>>}
\* search 'b', 'a:1', 'a:b', ''
CommandSearchRests == {str_b, <<"a", ":", "1">>, <<"a", ":", "b">>, <<>>}
\* tardis 'a', 'a:0', 'a:-1', 'a:4', 'a:b'
CommandArchivesRests ==
    {str_a, <<"a", ":", "0">>, <<"a", ":", "-", "1">>, <<"a", ":", "4">>,
     <<"a", ":", "b">>}

NextCommands ==
    \/ Tick
    \/ AddEntry(str_a, str_b, StoreAuthor, None)
    \/ \E rest \in CommandDefineRests : Define(Channel, Nick, rest)
    \/ \E rest \in CommandQueryRests : Query(rest)
    \/ \E rest \in CommandSearchRests : Search(rest)
    \/ \E slack_url \in BOOLEAN, rest \in CommandArchivesRests :
            ArchivesLink(slack_url, rest)

SpecCommands == Init /\ [][NextCommands]_vars

CommandOps == {"define", "whatis", "search", "tardis"}

\* C6: whatever the argument text and the table, a command handler returns a
\* reply; no exception leaves it.
C6_NoExceptionEscapes ==
    last.op \in CommandOps => last.reply.kind # "exception"

\* the argument shape '<term> <version>': the index of the space before the
\* trailing integer, 0 when the text has no such shape
RECURSIVE LastSpace(_, _)
LastSpace(s, i) ==
    IF i = 0 THEN 0 ELSE IF s[i] = " " THEN i ELSE LastSpace(s, i - 1)

HasVersionShape(rest) ==
    LET i == LastSpace(rest, Len(rest)) IN
    /\ 1 < i
    /\ i < Len(rest)
    /\ ParseInt(SubSeq(rest, i + 1, Len(rest))).ok
    /\ Strip(SubSeq(rest, 1, i - 1)) # <<>>

ShapeTerm(rest) == Strip(SubSeq(rest, 1, LastSpace(rest, Len(rest)) - 1))
ShapeVersion(rest) ==
    ParseInt(SubSeq(rest, LastSpace(rest, Len(rest)) + 1, Len(rest))).val

\* C7: whatis '<term> <version>' on a term with n definitions replies with
\* definition Di as (i/n) for i in 1..n and, for version 0, that "0" is not a
\* valid entry number for the term.
C7_TrailingVersionParsed ==
    (/\ last.op = "whatis"
     /\ HasVersionShape(last.rest)
     /\ Written(table, ShapeTerm(last.rest)) # <<>>) =>
        LET written == Written(table, ShapeTerm(last.rest))
            n == Len(written)
            i == ShapeVersion(last.rest)
        IN  /\ i \in 1..n =>
                /\ last.reply.kind = "query_result"
                /\ last.reply.definition = written[i].definition
                /\ last.reply.num = i
                /\ last.reply.total = n
            /\ i = 0 =>
                last.reply = InvalidNumberReply(Num(0), ShapeTerm(last.rest))


(***************************************************************************)
(* SpecDefine: define on terms it wrote itself and on terms the store was  *)
(* given directly (a term of punctuation, a definition that starts ':').   *)
(***************************************************************************)
ColonB == <<":", "b">>
\* define 'a: b', 'A:b ', 'A:c', '_:b', 'a::b', 'a: :b'
DefineAgainRests ==
    {<<"a", ":", " ", "b">>, <<"A", ":", "b", " ">>, <<"A", ":", "c">>,
     <<"_", ":", "b">>, <<"a", ":", ":", "b">>, <<"a", ":", " ", ":", "b">>}

NextDefine ==
    \/ Tick
    \/ \E w \in {<<str_underscore, str_b>>, <<str_a, ColonB>>} :
            AddEntry(w[1], w[2], StoreAuthor, None)
    \/ \E rest \in DefineAgainRests : Define(Channel, Nick, rest)
    \/ GetAllRecords

SpecDefine == Init /\ [][NextDefine]_vars

\* the term and the definition an argument text '<term>: <definition>' names
ArgTerm(rest) == Strip(Split1(Strip(rest), ":")[1])
ArgDefinition(rest) == Strip(Split1(Strip(rest), ":")[2])

\* define is called on a term that has definitions, with its latest one
RedefinesCurrent(tbl, rest) ==
    /\ Contains(<<":">>, rest)
    /\ Written(tbl, ArgTerm(rest)) # <<>>
    /\ LET written == Written(tbl, ArgTerm(rest)) IN
        written[Len(written)].definition = ArgDefinition(rest)

Rejected(reply) == reply = AlreadyCurrentReply

\* C3 (as stated): define on a term with n >= 1 definitions, under any
\* spelling, with a definition that trimmed equals the current one replies
\* "That's already the current definition." and leaves table and cache alone.
C3_SameDefinitionRejected ==
    [][(last'.op = "define" /\ RedefinesCurrent(table, last'.rest)) =>
            /\ Rejected(last'.reply)
            /\ table' = table
            /\ cache' = cache]_vars

\* C3 (amended): the same, for a term without punctuation characters and an
\* argument text without '::'.
C3_SameDefinitionRejectedValidTerm ==
    [][(/\ last'.op = "define"
        /\ RedefinesCurrent(table, last'.rest)
        /\ FirstPunctuation(ArgTerm(last'.rest), 1) = 0
        /\ ~Contains(<<":", ":">>, Strip(last'.rest))) =>
            /\ Rejected(last'.reply)
            /\ table' = table
            /\ cache' = cache]_vars

\* C3 witness: define has rejected the current definition of a term stored
\* under another spelling, with the all-entries cache filled
C3_Witness ==
    /\ last.op = "define"
    /\ Rejected(last.reply)
    /\ cache.has
    /\ table # <<>>
    /\ table[Len(table)].entry # ArgTerm(last.rest)
    /\ table[Len(table)].entry_lower = Lower(ArgTerm(last.rest))
    /\ table[Len(table)].definition = ArgDefinition(last.rest)


(***************************************************************************)
(* SpecValidate: define on argument texts that fail one or several of its  *)
(* checks, and on texts that pass them.                                    *)
(***************************************************************************)
\* define 'a', 'Help', 'a:b', 'A: c', 'a::b', 'a:b::', '-_:b', '_::b'
ValidateRests ==
    {str_a, <<"H", "e", "l", "p">>, <<"a", ":", "b">>, <<"A", ":", " ", "c">>,
     <<"a", ":", ":", "b">>, <<"a", ":", "b", ":", ":">>,
     <<"-", "_", ":", "b">>, <<"_", ":", ":", "b">>}

NextValidate ==
    \/ Tick
    \/ AddEntry(str_a, str_b, StoreAuthor, None)
    \/ \E rest \in ValidateRests : Define(Channel, Nick, rest)
    \/ GetAllRecords

SpecValidate == Init /\ [][NextValidate]_vars

\* the separator of the argument text is doubled: its first ':' is followed
\* at once by another
SeparatorDoubled(rest) ==
    LET r == Strip(rest)
        i == FindChar(r, ":", 1)
    IN  i # 0 /\ i < Len(r) /\ r[i + 1] = ":"

\* a define step on the argument text rest went through the checks in order:
\* the help text when isHelp, the no-separator reply, the '::' reply when
\* isDoubled, the punctuation reply with the first punctuation character of
\* the term, each leaving table and cache alone; past them, either the
\* already-current reply or one new row of the term and the definition
DefineChecked(rest, isHelp, isDoubled) ==
    LET r == Strip(rest)
        term == ArgTerm(rest)
        unchanged == table' = table /\ cache' = cache
    IN  IF isHelp THEN last'.reply = DOCS_STR /\ unchanged
        ELSE IF ~Contains(<<":">>, r) THEN last'.reply = OOPS_STR /\ unchanged
        ELSE IF isDoubled THEN last'.reply = DoubleColonReply /\ unchanged
        ELSE IF \E i \in 1..Len(term) : term[i] \in Punctuation
        THEN /\ \E i \in 1..Len(term) :
                    /\ term[i] \in Punctuation
                    /\ \A j \in 1..(i - 1) : term[j] \notin Punctuation
                    /\ last'.reply = PunctuationReply(term[i])
             /\ unchanged
        ELSE IF RedefinesCurrent(table, rest)
        THEN last'.reply = AlreadyCurrentReply /\ unchanged
        ELSE /\ last'.reply.kind = "okay"
             /\ Len(table') = Len(table) + 1
             /\ IsPrefix(table, table')
             /\ table'[Len(table')].entry = term
             /\ table'[Len(table')].definition = ArgDefinition(rest)
             /\ cache' = NoCache

\* C13 (as stated): define checks, in this order, that the argument has a
\* ':', that the separator is not doubled, that the term has no punctuation
\* (naming the first such character), and writes nothing when it rejects;
\* only an argument past all checks, not the current definition, adds a row.
C13_ValidationOrder ==
    [][last'.op = "define" =>
        DefineChecked(last'.rest, FALSE, SeparatorDoubled(last'.rest))]_vars

\* C13 (amended): the same with the check for 'help' before the others and
\* the '::' reply for '::' anywhere in the argument text.
C13_ValidationOrderHelpFirst ==
    [][last'.op = "define" =>
        DefineChecked(last'.rest, Lower(Strip(last'.rest)) = Help,
                      Contains(<<":", ":">>, Strip(last'.rest)))]_vars

\* C13 witness: define has rejected a term with two punctuation characters,
\* naming the first, with rows in the table and the all-entries cache filled
C13_Witness ==
    /\ last.op = "define"
    /\ last.rest = <<"-", "_", ":", "b">>
    /\ last.reply = PunctuationReply("-")
    /\ table # <<>>
    /\ cache.has


(***************************************************************************)
(* SpecThreads: a thread in get_all_records and a thread in add_entry,     *)
(* under a host that runs the calls one after another and under a host     *)
(* that lets their statements interleave.                                  *)
(***************************************************************************)
InitThreads ==
    /\ table = <<>>
    /\ cache = NoCache
    /\ clock = 0
    /\ last = [op |-> "init"]
    /\ bound = TRUE
    /\ threads \in {[NoThreads EXCEPT !.serial = b] : b \in BOOLEAN}

NextThreads ==
    \/ Tick
    \/ ReaderStart
    \/ ReaderQuery
    \/ ReaderStore
    \/ \E w \in {<<str_a, str_b>>, <<str_A, str_c>>, <<str_b, str_c>>} :
            WriterInsert(w[1], w[2], StoreAuthor, None)
    \/ WriterBust

SpecThreads == InitThreads /\ [][NextThreads]_vars

\* both calls have returned
AllIdle(t) == t.reader.pc = "idle" /\ t.writer.pc = "idle"

\* the cache holds a snapshot that omits a term of the table
OmitsTerm(c, tbl) == c.has /\ Groups(tbl) \ TermsOf(c.entries) # {}

\* C14: under a serial host the cache, between calls, never holds a snapshot
\* that omits a committed term; a snapshot that omits one (which interleaved
\* statements can leave) stays in the cache for as long as no write runs.
C14_CacheRace ==
    [][/\ (threads'.serial /\ AllIdle(threads')) => ~OmitsTerm(cache', table')
       /\ (/\ OmitsTerm(cache, table)
           /\ threads.writer.pc = "idle"
           /\ threads'.writer.pc = "idle") => OmitsTerm(cache', table')]_vars

\* C14 witness: the statements of the two calls have interleaved, both calls
\* have returned, and the cache holds a snapshot without the committed term
C14_Witness ==
    /\ ~threads.serial
    /\ AllIdle(threads)
    /\ OmitsTerm(cache, table)
    /\ last.op \in {"get_all_records", "add_entry"}


(***************************************************************************)
(* SpecRebind: the store finalized and initialized again, on the same      *)
(* database and on an empty one, between writes and reads of all entries.  *)
(***************************************************************************)
NextRebind ==
    \/ Tick
    \/ Finalize
    \/ \E db_uri \in {"same", "empty"}, data \in {<<>>, <<<<str_b, str_c>>>>} :
            Initialize(db_uri, data)
    \/ bound /\ AddEntry(str_a, str_b, StoreAuthor, None)
    \/ bound /\ GetAllRecords
    \/ bound /\ GetRandomEntry
    \/ bound /\ GetSimilarWords(str_a)
    \/ bound /\ Query(<<>>)

SpecRebind == Init /\ [][NextRebind]_vars

\* C15: get_all_records, get_random_entry and get_similar_words return only
\* terms of the database that is bound, and whatis without a term on an empty
\* glossary replies that it cannot find a single definition.
C15_SnapshotOfBoundStore ==
    /\ last.op = "get_all_records" =>
        TermsOf(last.result) \subseteq Groups(table)
    /\ last.op = "get_random_entry" =>
        IF table = <<>> THEN last.result = None
        ELSE Lower(last.result) \in Groups(table)
    /\ last.op = "get_similar_words" =>
        {Lower(e) : e \in last.result} \subseteq Groups(table)
    /\ (last.op = "whatis" /\ last.rest = <<>> /\ table = <<>>) =>
        last.reply = CantFindReply


(***************************************************************************)
(* SpecSearch: searches and suggestions over terms written under two       *)
(* spellings and redefined.                                                *)
(***************************************************************************)
\* search 'b', 'B', 'a', 'a b', 'c', '_', 'a:0', 'a:1'
SearchRests ==
    {str_b, <<"B">>, str_a, <<"a", " ", "b">>, str_c, str_underscore,
     <<"a", ":", "0">>, <<"a", ":", "1">>}
\* 'b-a_b', 'b a b', 'b_a-b', 'b-a-b', 'a'
SuggestionQueries ==
    {<<"b", "-", "a", "_", "b">>, <<"b", " ", "a", " ", "b">>,
     <<"b", "_", "a", "-", "b">>, <<"b", "-", "a", "-", "b">>, str_a}

NextSearch ==
    \/ Tick
    \/ \E w \in {<<str_a, str_b>>, <<str_A, str_b>>, <<str_a, str_c>>,
                 <<str_b, str_c>>} :
            AddEntry(w[1], w[2], StoreAuthor, None)
    \/ \E rest \in SearchRests : Search(rest)
    \/ \E entry \in SuggestionQueries : GetAlternativeSuggestions(entry)
    \/ GetSimilarWords(<<"B">>)

SpecSearch == Init /\ [][NextSearch]_vars

Delimiters == {" ", "-", "_"}

\* the texts that differ from q only in which delimiter stands at each
\* delimiter position
DelimiterVariants(q) ==
    {s \in [1..Len(q) -> Delimiters \cup Range(q)] :
        \A i \in 1..Len(q) :
            IF q[i] \in Delimiters THEN s[i] \in Delimiters ELSE s[i] = q[i]}

\* C8: get_alternative_suggestions returns the same set of terms for any two
\* queries that differ only in the choice of delimiters.
C8_DelimiterSymmetric ==
    last.op = "get_alternative_suggestions" =>
        \A q \in DelimiterVariants(last.entry) :
            get_alternative_suggestions(cache.entries, q) = last.result

\* the query text search hands to handle_search
SearchReached(rest) ==
    LET cmd == entry_number_command(rest) IN
    ~cmd.early /\ cmd.entry # <<>> /\ ~NumTruthy(cmd.num)
SearchQuery(rest) == entry_number_command(rest).entry

\* the case-insensitive terms a search reply lists
Reported(reply) ==
    IF reply.kind = "found" THEN {Lower(e) : e \in reply.matches} ELSE {}

\* the fragments of q between spaces, hyphens and underscores
RECURSIVE Fragments(_, _)
Fragments(q, word) ==
    IF q = <<>> THEN {Lower(word)}
    ELSE IF Head(q) \in Delimiters
         THEN {Lower(word)} \cup Fragments(Tail(q), <<>>)
         ELSE Fragments(Tail(q), Append(word, Head(q)))

CurrentDefinition(tbl, g) == Written(tbl, g)[Len(Written(tbl, g))].definition

C10_NoDuplicateTerms ==
    (last.op = "search" /\ last.reply.kind = "found") =>
        Cardinality(Reported(last.reply)) = Cardinality(last.reply.matches)

=============================================================================
